---- MODULE Spec2Model ----
(***************************************************************************)
(* State-machine model of tiktok_playwright_scraper.py: main, the link     *)
(* collection of collect_video_links, the extraction cascade of            *)
(* scrape_video and the cleanup of main's finally block.                   *)
(*                                                                         *)
(* Texts are sequences of one-character strings; URLs and hrefs are        *)
(* sequences of lexical tokens (the delimiters "/" and "?" and the runs    *)
(* between them).  Values that a field can hold are records                *)
(* [t, s, n]: a Python str (t = "str", text s), an int (t = "int", n) or   *)
(* None (t = "none").  Whatever the page answers (elements found, their    *)
(* texts, calls that raise) is chosen nondeterministically.                *)
(***************************************************************************)
EXTENDS Integers, Sequences, FiniteSets

\* ------------------------------------------------------------------ bounds
MaxLinksCap == 2          \* max_links ranges over 0..MaxLinksCap
MaxScrollIterations == 2  \* scroll_iterations ranges over 0..MaxScrollIterations
MaxAnchors == 2           \* anchors matched by one query_selector_all
MaxStrong == 2            \* <strong> elements scanned by the alternate lookup
MaxCommentElems == 4      \* elements matched by the comment selector
MaxItems == 2             \* entries of the embedded state's ItemModule

\* --------------------------------------------------------- program constants
CommentLimit == 3         \* comment_selectors[:3]
HumanScrollSteps == 2     \* human_scroll(page, steps=2, ...) in collect_video_links

\* ------------------------------------------------------------------ values
Str(s) == [t |-> "str", s |-> s, n |-> 0]
Int_(n) == [t |-> "int", s |-> << >>, n |-> n]
NoneVal == [t |-> "none", s |-> << >>, n |-> 0]
NA == Str(<<"N", "/", "A">>)

\* ------------------------------------------------------- string operations
RECURSIVE lstrip(_)
lstrip(s) == IF s # << >> /\ Head(s) = " " THEN lstrip(Tail(s)) ELSE s

RECURSIVE rstrip(_)
rstrip(s) == IF s # << >> /\ s[Len(s)] = " " THEN rstrip(SubSeq(s, 1, Len(s) - 1)) ELSE s

\* str.strip()
strip(s) == rstrip(lstrip(s))

\* str.startswith(p)
startswith(s, p) == Len(s) >= Len(p) /\ SubSeq(s, 1, Len(p)) = p

\* `sub in s`
Contains(s, sub) == \E k \in 0..(Len(s) - Len(sub)) : SubSeq(s, k + 1, k + Len(sub)) = sub

\* str.lower() on the characters the texts use
LowerChar(c) == IF c = "V" THEN "v" ELSE c
lower(s) == [k \in 1..Len(s) |-> LowerChar(s[k])]

\* str.replace(c, "")
RECURSIVE Remove(_, _)
Remove(s, c) == IF s = << >> THEN << >>
                ELSE IF Head(s) = c THEN Remove(Tail(s), c)
                ELSE <<Head(s)>> \o Remove(Tail(s), c)

Digits == {"0", "1", "2", "3", "4", "5", "6", "7", "8", "9"}
\* str.isdigit(): non-empty and every character a digit
isdigit(s) == s # << >> /\ \A k \in 1..Len(s) : s[k] \in Digits

\* href.split("?")[0]
RECURSIVE SplitQuery(_)
SplitQuery(s) == IF s = << >> \/ Head(s) = "?" THEN << >>
                 ELSE <<Head(s)>> \o SplitQuery(Tail(s))

\* urljoin("https://www.tiktok.com", href) for an href that starts with "/":
\* a network-path reference ("//host/...") takes only the base scheme, an
\* absolute-path reference takes the base scheme and authority.
BaseScheme == <<"https:">>
BaseAuthority == <<"/", "/", "www.tiktok.com">>
urljoin(href) == IF startswith(href, <<"/", "/">>) /\ Len(href) >= 3 /\ href[3] \notin {"/", "?"}
                 THEN BaseScheme \o href
                 ELSE BaseScheme \o BaseAuthority \o href

VideoMarker == <<"/", "video", "/">>

\* lines 105-109: the value inserted for one href, or the empty set when the
\* href is missing, empty or does not contain "/video/"
AddedLinks(href) == IF href.t = "str" /\ href.s # << >> /\ Contains(href.s, VideoMarker)
                    THEN {SplitQuery(IF startswith(href.s, <<"/">>) THEN urljoin(href.s) ELSE href.s)}
                    ELSE {}

\* -------------------------------------------------- what a page can answer
RAISE == [t |-> "raise", s |-> << >>, n |-> 0]

\* href attribute of a matched anchor: absent (None), root-relative with two
\* different queries, absolute, relative without leading slash,
\* protocol-relative, a link that is no video link, or get_attribute raising
Hrefs == { NoneVal, RAISE,
           Str(<<"/", "@u", "/", "video", "/", "1", "?", "x=1">>),
           Str(<<"/", "@u", "/", "video", "/", "1", "?", "y=2">>),
           Str(<<"https:", "/", "/", "www.tiktok.com", "/", "@u", "/", "video", "/", "1">>),
           Str(<<"@u", "/", "video", "/", "3">>),
           Str(<<"/", "/", "www.tiktok.com", "/", "@u", "/", "video", "/", "1">>),
           Str(<<"/", "@u", "/", "about">>) }

\* inner_text() of the views / likes element
MetricTexts == { <<" ">>, <<" ", "7", " ">> }
\* inner_text() of a <strong> element
StrongTexts == { <<" ">>, <<"x">>, <<"7", ",", "0">>, <<"V", "i", "e", "w", "s", " ">> }
\* inner_text() of a comment element
CommentTexts == { <<" ">>, <<" ", "a">>, <<"b", " ">> }

Outcomes == {"ok", "timeout", "error"}
Resources == {"page", "context", "browser"}

SeqsUpTo(S, n) == UNION { [1..k -> S] : k \in 0..n }

VARIABLES
    pc,                \* position in main / the called function
    max_links,         \* MAX_VIDEO_LINKS, passed as max_links
    scroll_iterations, \* SCROLL_ITERATIONS, passed as scroll_iterations
    launched,          \* start_browser returned a browser
    closeAttempted,    \* resources whose close() was called
    closeFailed,       \* resources whose close() raised
    playwright,        \* "running" inside the with block, else "stopped"
    exc,               \* exception in flight: "none", "timeout", "error"
    navFailed,         \* a page.goto raised in this run
    calls,             \* number of collect_video_links calls started
    links,             \* collect_video_links: links
    i,                 \* collect_video_links: scroll iteration index
    pending,           \* collect_video_links: anchors of this pass not yet read
    video_links,       \* main: video_links (last discovery result)
    chosen,            \* main: chosen
    scrapes,           \* number of scrape_video calls started
    views, likes, top_comments,  \* scrape_video locals
    comment_selectors, \* scrape_video: the queried comment elements
    result,            \* main: result
    csv_rows,          \* rows written by append_csv_row in this run
    logged             \* kinds of messages passed to log

vars == <<pc, max_links, scroll_iterations, launched, closeAttempted, closeFailed,
          playwright, exc, navFailed, calls, links, i, pending, video_links, chosen,
          scrapes, views, likes, top_comments, comment_selectors, result, csv_rows, logged>>

browserVars == <<launched, closeAttempted, closeFailed, playwright>>
configVars == <<max_links, scroll_iterations>>
collectVars == <<links, i, pending>>
scrapeVars == <<views, likes, top_comments, comment_selectors>>

NoUrl == << >>
NoResult == [url |-> NoUrl, views |-> NoneVal, likes |-> NoneVal, top_comments |-> << >>]

log(kind) == logged' = logged \cup {kind}

Init ==
    /\ pc = "start_browser"
    /\ max_links \in 0..MaxLinksCap
    /\ scroll_iterations \in 0..MaxScrollIterations
    /\ launched = FALSE
    /\ closeAttempted = {}
    /\ closeFailed = {}
    /\ playwright = "running"
    /\ exc = "none"
    /\ navFailed = FALSE
    /\ calls = 0
    /\ links = {}
    /\ i = 0
    /\ pending = 0
    /\ video_links = {}
    /\ chosen = NoUrl
    /\ scrapes = 0
    /\ views = NA
    /\ likes = NA
    /\ top_comments = << >>
    /\ comment_selectors = << >>
    /\ result = NoResult
    /\ csv_rows = << >>
    /\ logged = {"started"}

\* --------------------------------------------------------------------- main
\* An exception raised outside the try block leaves the with block: the
\* playwright driver is stopped and the exception leaves main.
LeaveWith(e) ==
    /\ pc' = "done"
    /\ exc' = e
    /\ playwright' = "stopped"

\* line 223: browser = start_browser(p, headless)
StartBrowser ==
    /\ pc = "start_browser"
    /\ \E ok \in BOOLEAN :
         IF ok
         THEN /\ launched' = TRUE
              /\ pc' = "new_context"
              /\ UNCHANGED <<exc, playwright>>
         ELSE /\ LeaveWith("error")
              /\ UNCHANGED launched
    /\ UNCHANGED <<configVars, closeAttempted, closeFailed, navFailed, calls, collectVars,
                   video_links, chosen, scrapes, scrapeVars, result, csv_rows, logged>>

\* line 224: context = browser.new_context(...), before the try block
NewContext ==
    /\ pc = "new_context"
    /\ \E ok \in BOOLEAN :
         IF ok
         THEN /\ pc' = "new_page"
              /\ UNCHANGED <<exc, playwright>>
         ELSE LeaveWith("error")
    /\ UNCHANGED <<configVars, launched, closeAttempted, closeFailed, navFailed, calls,
                   collectVars, video_links, chosen, scrapes, scrapeVars, result,
                   csv_rows, logged>>

\* line 225: page = context.new_page(), before the try block
NewPage ==
    /\ pc = "new_page"
    /\ \E ok \in BOOLEAN :
         IF ok
         THEN /\ pc' = "collect_goto"
              /\ calls' = 1
              /\ UNCHANGED <<exc, playwright>>
         ELSE /\ LeaveWith("error")
              /\ UNCHANGED calls
    /\ UNCHANGED <<configVars, launched, closeAttempted, closeFailed, navFailed,
                   collectVars, video_links, chosen, scrapes, scrapeVars, result,
                   csv_rows, logged>>

\* ------------------------------------------------------ collect_video_links
\* lines 80-97: log, page.goto, set_extra_http_headers (any error swallowed),
\* wait_for_selector (a timeout is logged, any other error propagates),
\* links = set()
CollectGoto ==
    /\ pc = "collect_goto"
    /\ \E nav \in Outcomes, wait \in Outcomes :
         IF nav # "ok"
         THEN /\ exc' = nav
              /\ navFailed' = TRUE
              /\ pc' = "except"
              /\ log("opening")
              /\ UNCHANGED collectVars
         ELSE /\ UNCHANGED navFailed
              /\ IF wait = "error"
                 THEN /\ exc' = "error"
                      /\ pc' = "except"
                      /\ log("opening")
                      /\ UNCHANGED collectVars
                 ELSE /\ logged' = logged \cup {"opening"}
                                      \cup (IF wait = "timeout" THEN {"wait_timeout"} ELSE {})
                      /\ links' = {}
                      /\ i' = 0
                      /\ pending' = 0
                      /\ pc' = "scroll"
                      /\ UNCHANGED exc
    /\ UNCHANGED <<configVars, browserVars, calls, video_links, chosen, scrapes,
                   scrapeVars, result, csv_rows>>

\* lines 69-73: human_scroll; page.evaluate is called `steps` times and the
\* first call that raises ends the function with that exception
human_scroll(steps, raisesAt) == IF raisesAt \in 1..steps THEN "error" ELSE "ok"

\* lines 98-101: loop test, human_scroll(page, steps=2), query_selector_all
HarvestPass ==
    /\ pc = "scroll"
    /\ i < scroll_iterations
    /\ \E raisesAt \in 0..HumanScrollSteps, query \in {"ok", "error"}, n \in 0..MaxAnchors :
         IF human_scroll(HumanScrollSteps, raisesAt) # "ok" \/ query # "ok"
         THEN /\ exc' = "error"
              /\ pc' = "except"
              /\ UNCHANGED pending
         ELSE /\ pending' = n
              /\ pc' = "anchors"
              /\ UNCHANGED exc
    /\ UNCHANGED <<configVars, browserVars, navFailed, calls, links, i, video_links,
                   chosen, scrapes, scrapeVars, result, csv_rows, logged>>

\* lines 102-113: one iteration of `for a in anchors`
ReadAnchor ==
    /\ pc = "anchors"
    /\ pending > 0
    /\ \E href \in Hrefs :
         IF href = RAISE
         THEN /\ pending' = pending - 1
              /\ UNCHANGED links
         ELSE /\ links' = links \cup AddedLinks(href)
              /\ pending' = IF AddedLinks(href) # {} /\ Cardinality(links') >= max_links
                            THEN 0
                            ELSE pending - 1
    /\ UNCHANGED <<pc, configVars, browserVars, exc, navFailed, calls, i, video_links,
                   chosen, scrapes, scrapeVars, result, csv_rows, logged>>

\* lines 114-117: after the anchors of a pass, leave the loop when the cap is
\* reached, else go on with the next scroll iteration
EndPass ==
    /\ pc = "anchors"
    /\ pending = 0
    /\ IF Cardinality(links) >= max_links
       THEN /\ pc' = "collect_return"
            /\ UNCHANGED i
       ELSE /\ pc' = "scroll"
            /\ i' = i + 1
    /\ UNCHANGED <<configVars, browserVars, exc, navFailed, calls, links, pending,
                   video_links, chosen, scrapes, scrapeVars, result, csv_rows, logged>>

\* line 98: range(scroll_iterations) is exhausted
LoopExhausted ==
    /\ pc = "scroll"
    /\ i >= scroll_iterations
    /\ pc' = "collect_return"
    /\ UNCHANGED <<configVars, browserVars, exc, navFailed, calls, collectVars,
                   video_links, chosen, scrapes, scrapeVars, result, csv_rows, logged>>

\* lines 119-121 and 229/235: links_list = list(links), log, return into
\* main's video_links
CollectReturn ==
    /\ pc = "collect_return"
    /\ video_links' = links
    /\ log("collected")
    /\ links' = {}
    /\ i' = 0
    /\ pending' = 0
    /\ pc' = "check_links"
    /\ UNCHANGED <<configVars, browserVars, exc, navFailed, calls, chosen, scrapes,
                   scrapeVars, result, csv_rows>>

\* the mobile profile tried whatever the primary profile gave
RetryMobile_Always ==
    /\ pc = "check_links"
    /\ calls = 1
    /\ log("no_links_www")
    /\ calls' = 2
    /\ pc' = "collect_goto"
    /\ UNCHANGED <<configVars, browserVars, exc, navFailed, collectVars, video_links,
                   chosen, scrapes, scrapeVars, result, csv_rows>>

\* lines 231-235: the primary profile gave no link, try the mobile profile
RetryMobile ==
    /\ pc = "check_links"
    /\ calls = 1
    /\ video_links = {}
    /\ log("no_links_www")
    /\ calls' = 2
    /\ pc' = "collect_goto"
    /\ UNCHANGED <<configVars, browserVars, exc, navFailed, collectVars, video_links,
                   chosen, scrapes, scrapeVars, result, csv_rows>>

\* lines 237-239: still no link, log and return (through finally)
NoLinksExit ==
    /\ pc = "check_links"
    /\ calls = 2
    /\ video_links = {}
    /\ log("no_links_exit")
    /\ pc' = "finally_page"
    /\ UNCHANGED <<configVars, browserVars, exc, navFailed, calls, collectVars,
                   video_links, chosen, scrapes, scrapeVars, result, csv_rows>>

\* lines 241-247: chosen = random.choice(video_links), log,
\* human_scroll(page, steps=1)
ChooseVideo ==
    /\ pc = "check_links"
    /\ video_links # {}
    /\ \E u \in video_links, raisesAt \in 0..1 :
         /\ chosen' = u
         /\ log("selected")
         /\ IF human_scroll(1, raisesAt) # "ok"
            THEN /\ exc' = "error"
                 /\ pc' = "except"
            ELSE /\ pc' = "scrape_goto"
                 /\ UNCHANGED exc
    /\ UNCHANGED <<configVars, browserVars, navFailed, calls, collectVars, video_links,
                   scrapes, scrapeVars, result, csv_rows>>

\* ------------------------------------------------------------- scrape_video
\* lines 128-135: log, page.goto, views, likes = "N/A", "N/A"; top_comments = []
ScrapeGoto ==
    /\ pc = "scrape_goto"
    /\ scrapes' = scrapes + 1
    /\ log("navigating")
    /\ \E nav \in Outcomes :
         IF nav # "ok"
         THEN /\ exc' = nav
              /\ navFailed' = TRUE
              /\ pc' = "except"
              /\ UNCHANGED scrapeVars
         ELSE /\ views' = NA
              /\ likes' = NA
              /\ top_comments' = << >>
              /\ comment_selectors' = << >>
              /\ pc' = "views"
              /\ UNCHANGED <<exc, navFailed>>
    /\ UNCHANGED <<configVars, browserVars, calls, collectVars, video_links, chosen,
                   result, csv_rows>>

\* What query_selector followed by inner_text can give: the query raises, no
\* element matches, inner_text raises, or a text
Lookups == [kind : {"query_raises", "no_element", "text_raises"}, text : {<< >>}]
           \cup [kind : {"text"}, text : MetricTexts]

\* lines 140-142 / 147-149: the value of the field after one direct lookup
DirectLookup(old, r) == IF r.kind = "text" THEN Str(strip(r.text)) ELSE old

\* lines 138-144
ScrapeViews ==
    /\ pc = "views"
    /\ \E r \in Lookups : views' = DirectLookup(views, r)
    /\ pc' = "likes"
    /\ UNCHANGED <<configVars, browserVars, exc, navFailed, calls, collectVars,
                   video_links, chosen, scrapes, likes, top_comments, comment_selectors,
                   result, csv_rows, logged>>

\* lines 146-151
ScrapeLikes ==
    /\ pc = "likes"
    /\ \E r \in Lookups : likes' = DirectLookup(likes, r)
    /\ pc' = "alt_views"
    /\ UNCHANGED <<configVars, browserVars, exc, navFailed, calls, collectVars,
                   video_links, chosen, scrapes, views, top_comments, comment_selectors,
                   result, csv_rows, logged>>

\* line 159: txt and ("views" in txt.lower() or txt.replace(",", "").isdigit())
LooksLikeViews(txt) ==
    /\ txt # << >>
    /\ \/ Contains(lower(txt), <<"v", "i", "e", "w", "s">>)
       \/ isdigit(Remove(txt, ","))

\* lines 157-161: scan of the <strong> elements; an inner_text that raises
\* ends the scan (the try block spans the loop)
RECURSIVE ScanStrong(_, _)
ScanStrong(old, els) ==
    IF els = << >> THEN old
    ELSE IF Head(els) = RAISE THEN old
    ELSE IF LooksLikeViews(strip(Head(els).s)) THEN Str(strip(Head(els).s))
    ELSE ScanStrong(old, Tail(els))

StrongElems == {RAISE} \cup {Str(x) : x \in StrongTexts}

\* lines 154-163
ScrapeAltViews ==
    /\ pc = "alt_views"
    /\ IF views = NA
       THEN \E raises \in BOOLEAN, els \in SeqsUpTo(StrongElems, MaxStrong) :
              views' = IF raises THEN views ELSE ScanStrong(views, els)
       ELSE UNCHANGED views
    /\ pc' = "comments"
    /\ UNCHANGED <<configVars, browserVars, exc, navFailed, calls, collectVars,
                   video_links, chosen, scrapes, likes, top_comments, comment_selectors,
                   result, csv_rows, logged>>

\* the slice forgotten: every matched element is read
FirstN_NoSlice(s, n) == s

\* comment_selectors[:3]
FirstN(s, n) == SubSeq(s, 1, IF Len(s) < n THEN Len(s) ELSE n)

\* lines 168-174: an element whose inner_text raises or is empty after strip
\* is skipped
RECURSIVE CollectComments(_)
CollectComments(els) ==
    IF els = << >> THEN << >>
    ELSE IF Head(els) = RAISE THEN CollectComments(Tail(els))
    ELSE IF strip(Head(els).s) # << >>
         THEN <<strip(Head(els).s)>> \o CollectComments(Tail(els))
         ELSE CollectComments(Tail(els))

CommentElems == {RAISE} \cup {Str(x) : x \in CommentTexts}

\* lines 165-176
ScrapeComments ==
    /\ pc = "comments"
    /\ \E raises \in BOOLEAN, els \in SeqsUpTo(CommentElems, MaxCommentElems) :
         IF raises
         THEN UNCHANGED <<top_comments, comment_selectors>>
         ELSE /\ comment_selectors' = els
              /\ top_comments' = top_comments \o CollectComments(FirstN(els, CommentLimit))
    /\ pc' = "fallback"
    /\ UNCHANGED <<configVars, browserVars, exc, navFailed, calls, collectVars,
                   video_links, chosen, scrapes, views, likes, result, csv_rows, logged>>

\* The embedded state object as page.evaluate returns it
ABSENT == [t |-> "absent", s |-> << >>, n |-> 0]
PlayCounts == {ABSENT, Int_(1000)}
DiggCounts == {ABSENT, Int_(50)}
\* an ItemModule entry: not a dict ("bad": meta.get raises), without stats or
\* with empty stats ("nostats"), or with a non-empty stats dict
Metas == [kind : {"bad", "nostats"}, playCount : {ABSENT}, diggCount : {ABSENT}]
         \cup [kind : {"stats"}, playCount : PlayCounts, diggCount : DiggCounts]
\* the evaluation raises, gives no dict, a dict without ItemModule/itemModule,
\* or a dict whose item module is a dict of entries
StateObjects == [kind : {"raises", "no_dict", "no_module"}, items : {<< >>}]
                \cup [kind : {"module"}, items : SeqsUpTo(Metas, MaxItems)]

\* dict.get(key, default)
Get(v, default) == IF v = ABSENT THEN default ELSE v

\* lines 194-199: the first entry with non-empty stats gives both fields; an
\* entry that raises ends the loop with nothing assigned
RECURSIVE FromItems(_, _)
FromItems(old, items) ==
    IF items = << >> THEN old
    ELSE IF Head(items).kind = "bad" THEN old
    ELSE IF Head(items).kind = "stats"
         THEN [views |-> Get(Head(items).playCount, old.views),
               likes |-> Get(Head(items).diggCount, old.likes)]
    ELSE FromItems(old, Tail(items))

\* lines 189-199
FromState(old, obj) == IF obj.kind = "module" THEN FromItems(old, obj.items) ELSE old

\* line 179
FallbackWanted == (views = NA \/ likes = NA) /\ top_comments = << >>

\* line 179: the test that guards the fallback; the matched comment elements
\* are not used after the comment loop
FallbackTest ==
    /\ pc = "fallback"
    /\ pc' = IF FallbackWanted THEN "embedded_state" ELSE "return"
    /\ comment_selectors' = << >>
    /\ UNCHANGED <<configVars, browserVars, exc, navFailed, calls, collectVars,
                   video_links, chosen, scrapes, views, likes, top_comments, result,
                   csv_rows, logged>>

\* lines 180-201: the embedded-state fallback
EmbeddedState ==
    /\ pc = "embedded_state"
    /\ \E obj \in StateObjects :
         LET new == FromState([views |-> views, likes |-> likes], obj)
         IN /\ views' = new.views
            /\ likes' = new.likes
    /\ pc' = "return"
    /\ UNCHANGED <<configVars, browserVars, exc, navFailed, calls, collectVars,
                   video_links, chosen, scrapes, top_comments, comment_selectors, result,
                   csv_rows, logged>>

\* lines 204-209 and 249: the returned record, result = scrape_video(...);
\* the locals of scrape_video end with the call
ScrapeReturn ==
    /\ pc = "return"
    /\ result' = [url |-> chosen, views |-> views, likes |-> likes,
                  top_comments |-> top_comments]
    /\ views' = NA
    /\ likes' = NA
    /\ top_comments' = << >>
    /\ pc' = "report"
    /\ UNCHANGED <<configVars, browserVars, exc, navFailed, calls, collectVars,
                   video_links, chosen, scrapes, comment_selectors, csv_rows, logged>>

\* lines 250-266: log the result, simulate a comment, append the report row
\* (the simulated comment is not part of the modelled row)
Report ==
    /\ pc = "report"
    /\ logged' = logged \cup {"result", "simulated"}
    /\ csv_rows' = Append(csv_rows, [video_url |-> result.url, views |-> result.views,
                                     likes |-> result.likes,
                                     top_comments |-> result.top_comments,
                                     notes |-> "ok"])
    /\ pc' = "finally_page"
    /\ UNCHANGED <<configVars, browserVars, exc, navFailed, calls, collectVars,
                   video_links, chosen, scrapes, scrapeVars, result>>

\* ------------------------------------------------- except / finally of main
\* the timeout handler passing silently
ExceptTimeout_Silent ==
    /\ pc = "except"
    /\ exc = "timeout"
    /\ exc' = "none"
    /\ pc' = "finally_page"
    /\ UNCHANGED <<configVars, browserVars, navFailed, calls, collectVars, video_links,
                   chosen, scrapes, scrapeVars, result, csv_rows, logged>>

\* lines 268-269
ExceptTimeout ==
    /\ pc = "except"
    /\ exc = "timeout"
    /\ log("timeout")
    /\ exc' = "none"
    /\ pc' = "finally_page"
    /\ UNCHANGED <<configVars, browserVars, navFailed, calls, collectVars, video_links,
                   chosen, scrapes, scrapeVars, result, csv_rows>>

\* lines 270-271
ExceptOther ==
    /\ pc = "except"
    /\ exc = "error"
    /\ log("unhandled")
    /\ exc' = "none"
    /\ pc' = "finally_page"
    /\ UNCHANGED <<configVars, browserVars, navFailed, calls, collectVars, video_links,
                   chosen, scrapes, scrapeVars, result, csv_rows>>

\* one try: X.close() except Exception: pass
Close(r, next) ==
    /\ closeAttempted' = closeAttempted \cup {r}
    /\ \E raises \in BOOLEAN :
         closeFailed' = IF raises THEN closeFailed \cup {r} ELSE closeFailed
    /\ pc' = next

\* lines 273-276
ClosePage ==
    /\ pc = "finally_page"
    /\ Close("page", "finally_context")
    /\ UNCHANGED <<configVars, launched, playwright, exc, navFailed, calls, collectVars,
                   video_links, chosen, scrapes, scrapeVars, result, csv_rows, logged>>

\* lines 277-280
CloseContext ==
    /\ pc = "finally_context"
    /\ Close("context", "finally_browser")
    /\ UNCHANGED <<configVars, launched, playwright, exc, navFailed, calls, collectVars,
                   video_links, chosen, scrapes, scrapeVars, result, csv_rows, logged>>

\* lines 281-286: browser.close(), end of the with block, log("=== Finished ===")
CloseBrowser ==
    /\ pc = "finally_browser"
    /\ Close("browser", "done")
    /\ playwright' = "stopped"
    /\ log("finished")
    /\ UNCHANGED <<configVars, launched, exc, navFailed, calls, collectVars,
                   video_links, chosen, scrapes, scrapeVars, result, csv_rows>>

Next ==
    \/ StartBrowser \/ NewContext \/ NewPage
    \/ CollectGoto \/ HarvestPass \/ ReadAnchor \/ EndPass \/ LoopExhausted
    \/ CollectReturn \/ RetryMobile \/ NoLinksExit \/ ChooseVideo
    \/ ScrapeGoto \/ ScrapeViews \/ ScrapeLikes \/ ScrapeAltViews \/ ScrapeComments
    \/ FallbackTest \/ EmbeddedState \/ ScrapeReturn \/ Report
    \/ ExceptTimeout \/ ExceptOther
    \/ ClosePage \/ CloseContext \/ CloseBrowser

Spec == Init /\ [][Next]_vars

\* ===================================================================== claims

\* a non-empty str equal to its own strip()
IsTrimmedText(v) == v.t = "str" /\ v.s # << >> /\ strip(v.s) = v.s
SentinelOrText(v) == v = NA \/ IsTrimmedText(v)

\* C1: in the record scrape_video returns, views and likes are each a
\* non-empty trimmed string or the sentinel "N/A" (never "", None or a
\* non-string).
C1_ViewsLikesSentinelOrText ==
    pc = "report" => SentinelOrText(result.views) /\ SentinelOrText(result.likes)

NoEmptyEntry(cs) == \A k \in 1..Len(cs) : cs[k] # << >>

\* C2: top_comments has at most 3 entries and no empty entry, during the
\* scrape and in the returned record, however many comment elements match and
\* whichever of them are empty or raise.
C2_TopCommentsBounded ==
    /\ Len(top_comments) <= 3 /\ NoEmptyEntry(top_comments)
    /\ Len(result.top_comments) <= 3 /\ NoEmptyEntry(result.top_comments)

\* more than three elements matched, among the first three one raised and
\* one was blank, and a comment was kept
C2_Witness ==
    /\ pc = "fallback"
    /\ Len(comment_selectors) > 3
    /\ \E j, k \in 1..3 : comment_selectors[j] = RAISE /\ comment_selectors[k] = Str(<<" ">>)
    /\ Len(top_comments) = 1

\* C3: the link set never holds more than max_links members, during
\* collection and in the returned list, for every max_links including 0.
C3_LinksWithinCap ==
    /\ Cardinality(links) <= max_links
    /\ Cardinality(video_links) <= max_links

\* scheme, "//", a non-empty authority
IsAbsoluteUrl(u) ==
    /\ Len(u) >= 4
    /\ u[1] \in {"https:", "http:"}
    /\ u[2] = "/" /\ u[3] = "/"
    /\ u[4] \notin {"/", "?"}

\* C4: every member of the returned list is an absolute URL without a query
\* string.
C4_LinksAbsoluteNoQuery ==
    \A u \in video_links : IsAbsoluteUrl(u) /\ ~Contains(u, <<"?">>)

FailureLogged == logged \cap {"timeout", "unhandled"} # {}

\* C5: once a page.goto has failed, no report row is written in the run, the
\* failure is logged by the handler, and page, context and browser have each
\* been closed when main ends.
C5_NavFailureNoRowButCleanup ==
    navFailed =>
        /\ csv_rows = << >>
        /\ (pc # "except" => FailureLogged)
        /\ (pc = "done" => closeAttempted = Resources)

\* the navigation to the chosen video timed out and main has ended
C5_Witness ==
    /\ navFailed
    /\ scrapes = 1
    /\ "timeout" \in logged
    /\ pc = "done"

\* C6: the mobile profile is tried at most once and only when the primary
\* discovery returned no link; scrape_video is only called with a member of
\* the last discovery result; with no link from either discovery there is no
\* scrape and no report row.
C6_MobileRetryAndSelection ==
    /\ [](/\ calls <= 2
          /\ (scrapes > 0 => chosen \in video_links)
          /\ (scrapes > 0 \/ csv_rows # << >> => video_links # {}))
    /\ [][/\ (calls' # calls /\ calls' = 2 => calls = 1 /\ video_links = {} /\ pc = "check_links")
          /\ (scrapes' # scrapes => chosen \in video_links /\ scrapes' = 1)]_vars

\* the primary discovery gave nothing, the mobile one two links, and the
\* video scraped and reported is one of them
C6_Witness ==
    /\ calls = 2
    /\ Cardinality(video_links) = 2
    /\ csv_rows # << >>
    /\ csv_rows[1].video_url \in video_links

\* C7: whenever main ends after the browser was launched, a close of the
\* page, of the context and of the browser has each been attempted.
C7_AllReleasesAttempted ==
    pc = "done" /\ launched => closeAttempted = Resources

\* C8: inside the collection loop no step lets an error reach the caller.
C8_HarvestErrorsSwallowed ==
    [][(pc = "scroll" \/ pc = "anchors") => (exc' = "none" /\ pc' # "except")]_vars

\* C9: the embedded-state fallback is run only when views or likes is
\* unresolved and no comment was found, and a field that an earlier stage
\* resolved keeps its value through it.
C9_FallbackKeepsResolved ==
    /\ [](pc = "embedded_state" => FallbackWanted)
    /\ [][pc = "embedded_state" =>
            /\ (views # NA => views' = views)
            /\ (likes # NA => likes' = likes)]_vars

\* C10: top_comments is the trimmed texts of the first 3 matched elements
\* with non-empty text, in order; blank elements do not count toward the 3.
C10_FirstThreeNonEmpty ==
    pc = "fallback" => top_comments = FirstN(CollectComments(comment_selectors), 3)

====
